---- MODULE Spec2Model ----
(***************************************************************************)
(* Model of create_placeholder_screenshots.py: the generator               *)
(* create_screenshot(width, height, filename, device_name) and the module  *)
(* level driver that creates two directories and calls it 5 + 3 times.     *)
(*                                                                         *)
(* Two specifications are given:                                           *)
(*   Spec      the script as written (lines 48-61 driving lines 5-46);     *)
(*   SpecCall  one call of create_screenshot on arguments and a file       *)
(*             system drawn from bounded sets.                             *)
(* The host facilities (Pillow, the file system, the interpreter) are the  *)
(* environment: what they may answer is a nondeterministic choice.         *)
(***************************************************************************)
EXTENDS Integers, Sequences, FiniteSets, TLC

VARIABLES
  pc,           \* the statement about to run
  ret,          \* where the running call of create_screenshot returns to
  i,            \* the driver's loop variable (0: the loop has not yielded yet)
  callNo,       \* number of calls of create_screenshot started so far
  width, height, filename, device_name,     \* the arguments of the call
  img,          \* the canvas: size, scan-line colours (as bands), drawn texts
  y,            \* the local y: the gradient loop's row, then the text's y
  x,            \* the local x of the last text drawn
  font_large, font_small,
  font_error,   \* which truetype() call of this call raised: none, large, small
  dirs, files,  \* the file system: directories, and files with their content
  out,          \* the lines printed on standard output
  written,      \* the paths saved by this run, in order
  exc,          \* the uncaught exception, if any
  exitStatus    \* -1 while running, then the interpreter's exit status

locals == <<width, height, filename, device_name, img, y, x,
            font_large, font_small, font_error>>
vars   == <<pc, ret, i, callNo, width, height, filename, device_name, img, y, x,
            font_large, font_small, font_error, dirs, files, out, written, exc,
            exitStatus>>

----------------------------------------------------------------------------
(* Bounds of the model *)

MaxWidth      == 3    \* SpecCall: widths 1..MaxWidth besides the two real sizes
MaxHeight     == 18   \* SpecCall: heights 1..MaxHeight besides the two real sizes
MaxBearing    == 2    \* left offset of a measured bounding box: 0..MaxBearing
MaxTextWidth  == 2    \* measured text widths: 1..MaxTextWidth

----------------------------------------------------------------------------
(* Program constants *)

StartR == 108
StartG == 102
StartB == 241
EndR   == 79
EndG   == 70
EndB   == 229

IPhoneWidth  == 1290
IPhoneHeight == 2796
IPadWidth    == 2048
IPadHeight   == 2732
IPhoneCount  == 5
IPadCount    == 3

TitleLift   == 100
TaglineDrop == 50

StartColor == <<StartR, StartG, StartB>>
EndColor   == <<EndR, EndG, EndB>>

Title   == "Flow iQ"
Tagline == "Intelligent Menstrual Health"

----------------------------------------------------------------------------
(* Pure helpers *)

\* Python's int() of the exact quotient n / d (d > 0): truncation toward zero.
IntOfQuotient(n, d) == IF n >= 0 THEN n \div d ELSE -((-n) \div d)

\* Faulty variant: the difference taken the wrong way round, (a - b) for (b - a).
LerpReversed(a, b, row, h) == IntOfQuotient(a * h + (a - b) * row, h)

\* int(a + (b - a) * row / h)
Lerp(a, b, row, h) == IntOfQuotient(a * h + (b - a) * row, h)

\* Faulty variant: the green and blue channels exchanged.
GradientColorSwapped(row, h) ==
  << Lerp(StartR, EndR, row, h), Lerp(StartB, EndB, row, h), Lerp(StartG, EndG, row, h) >>

\* Lines 12-16: the colour of scan-line row of a canvas h rows high.
GradientColor(row, h) ==
  << Lerp(StartR, EndR, row, h), Lerp(StartG, EndG, row, h), Lerp(StartB, EndB, row, h) >>

\* A path is the sequence of its components.
IphoneDir == <<"screenshots", "iphone">>
IpadDir   == <<"screenshots", "ipad">>

ScreenshotName(n) == "screenshot_" \o ToString(n) \o ".png"

\* Faulty variant: the loop index left out of the file name.
IphonePathSameName(n) == Append(IphoneDir, "screenshot.png")

\* f"screenshots/iphone/screenshot_{i}.png"
IphonePath(n) == Append(IphoneDir, ScreenshotName(n))

\* f"screenshots/ipad/screenshot_{i}.png"
IpadPath(n) == Append(IpadDir, ScreenshotName(n))

Dirname(p) == SubSeq(p, 1, Len(p) - 1)

\* The directories os.makedirs(p) makes sure exist: p and all its ancestors.
Ancestors(p) == { SubSeq(p, 1, k) : k \in 1..Len(p) }

\* The current directory always exists.
DirExists(d) == d = <<>> \/ d \in dirs

NoExc == [type |-> "none", at |-> "none", call |-> 0]
NoImg == [size |-> <<0, 0>>, bands |-> {}, texts |-> <<>>]

\* The canvas keeps its scan-lines as bands: a band is a maximal run first..last
\* of rows (numbered from 1) painted in one colour across the whole width.
RowColor(image, k) ==
  (CHOOSE b \in image.bands : b.first <= k /\ k <= b.last).color

\* The bands of a canvas h rows high whose row k has the colour colors[k].
BandsOf(h, colors) ==
  LET starts == { k \in 1..h : k = 1 \/ colors[k] # colors[k - 1] }
      EndOf(s) == IF \E t \in starts : t > s
                    THEN (CHOOSE t \in starts :
                            t > s /\ \A u \in starts : u > s => t <= u) - 1
                    ELSE h
  IN  { [first |-> s, last |-> EndOf(s), color |-> colors[s]] : s \in starts }

PngOf(image)  == [valid |-> TRUE, size |-> image.size]
TruncatedFile == [valid |-> FALSE, size |-> <<0, 0>>]
StaleFile     == [valid |-> TRUE, size |-> <<1, 1>>]

\* What draw.textbbox((0, 0), text, font) may return: (left, top, right, bottom).
\* The box starts MaxBearing or fewer pixels right of the origin; the text is as
\* high as it is wide here (the height only moves the title up or down).
BBoxes ==
  { <<l, 0, l + w, w>> : l \in 0..MaxBearing, w \in 1..MaxTextWidth }

----------------------------------------------------------------------------
(* create_screenshot, lines 5-46 *)

\* Faulty variant: the exception is noted and the caller goes on.
RaiseAndContinue(type) ==
  /\ pc' = ret
  /\ exitStatus' = exitStatus
  /\ exc' = [type |-> type, at |-> pc, call |-> callNo]

\* Faulty variant: the exception ends the run with exit status 0.
RaiseExitZero(type) ==
  /\ pc' = "exit"
  /\ exitStatus' = 0
  /\ exc' = [type |-> type, at |-> pc, call |-> callNo]

\* An exception nothing catches: the traceback goes to standard error and the
\* interpreter exits with status 1.
Raise(type) ==
  /\ pc' = "exit"
  /\ exitStatus' = 1
  /\ exc' = [type |-> type, at |-> pc, call |-> callNo]

\* Lines 7-8: Image.new fills the canvas with the base colour.
new_image ==
  /\ pc = "new"
  /\ img' = [size  |-> <<width, height>>,
             bands |-> BandsOf(height, [k \in 1..height |-> StartColor]),
             texts |-> <<>>]
  /\ y' = 0
  /\ pc' = "for_y"
  /\ UNCHANGED <<ret, i, callNo, width, height, filename, device_name, x,
                 font_large, font_small, font_error, dirs, files, out, written,
                 exc, exitStatus>>

\* Lines 11-17: the loop paints every scan-line row from x = 0 to x = width,
\* that is the whole row, in the colour of that row; it leaves y at the last row.
for_y ==
  /\ pc = "for_y"
  /\ img' = [img EXCEPT !.bands =
               BandsOf(height, [k \in 1..height |-> GradientColor(k - 1, height)])]
  /\ y' = height - 1
  /\ pc' = "fonts"
  /\ UNCHANGED <<ret, i, callNo, width, height, filename, device_name, x,
                 font_large, font_small, font_error, dirs, files, out, written,
                 exc, exitStatus>>

\* Faulty variant: no except clause around the two truetype() calls.
load_fonts_uncaught ==
  /\ pc = "fonts"
  /\ \E failing \in {"none", "large", "small"} :
       /\ font_error' = failing
       /\ IF failing = "none"
            THEN /\ font_large' = "Helvetica120"
                 /\ font_small' = "Helvetica60"
                 /\ pc' = "title"
                 /\ UNCHANGED <<exc, exitStatus>>
            ELSE /\ font_large' = (IF failing = "small" THEN "Helvetica120" ELSE font_large)
                 /\ font_small' = font_small
                 /\ Raise("OSError")
  /\ UNCHANGED <<ret, i, callNo, width, height, filename, device_name, img, y, x,
                 dirs, files, out, written>>

\* Lines 20-25: either truetype() call may raise, for whatever reason; the bare
\* except then binds both fonts to the built-in one.
load_fonts ==
  /\ pc = "fonts"
  /\ \E failing \in {"none", "large", "small"} :
       /\ font_error' = failing
       /\ IF failing = "none"
            THEN /\ font_large' = "Helvetica120"
                 /\ font_small' = "Helvetica60"
            ELSE /\ font_large' = "default"
                 /\ font_small' = "default"
  /\ pc' = "title"
  /\ UNCHANGED <<ret, i, callNo, width, height, filename, device_name, img, y, x,
                 dirs, files, out, written, exc, exitStatus>>

\* draw.text((tx, ty), text, font): the ink of the text is its bounding box at
\* the origin moved by (tx, ty).
DrawText(image, text, font, tx, ty, bbox) ==
  [image EXCEPT !.texts =
     Append(@, [text |-> text, font |-> font, at |-> <<tx, ty>>,
                ink  |-> <<tx + bbox[1], ty + bbox[2], tx + bbox[3], ty + bbox[4]>>])]

\* Lines 28-34
draw_title ==
  /\ pc = "title"
  /\ \E bbox \in BBoxes :
       LET text_width  == bbox[3] - bbox[1]
           text_height == bbox[4] - bbox[2]
           tx == (width - text_width) \div 2
           ty == (height - text_height) \div 2 - TitleLift
       IN  /\ x' = tx
           /\ y' = ty
           /\ img' = DrawText(img, Title, font_large, tx, ty, bbox)
  /\ pc' = "tagline"
  /\ UNCHANGED <<ret, i, callNo, width, height, filename, device_name,
                 font_large, font_small, font_error, dirs, files, out, written,
                 exc, exitStatus>>

\* Lines 37-42
draw_tagline ==
  /\ pc = "tagline"
  /\ \E bbox \in BBoxes :
       LET text_width == bbox[3] - bbox[1]
           tx == (width - text_width) \div 2
           ty == (height \div 2) + TaglineDrop
       IN  /\ x' = tx
           /\ y' = ty
           /\ img' = DrawText(img, Tagline, font_small, tx, ty, bbox)
  /\ pc' = "save"
  /\ UNCHANGED <<ret, i, callNo, width, height, filename, device_name,
                 font_large, font_small, font_error, dirs, files, out, written,
                 exc, exitStatus>>

\* What img.save leaves behind when writing fails after the file was opened:
\* nothing new, or a truncated file.
FailedWrites == { files, (filename :> TruncatedFile) @@ files }

\* Faulty variant: the save creates the missing directories itself.
save_makedirs ==
  /\ pc = "save"
  /\ dirs' = dirs \cup Ancestors(Dirname(filename))
  /\ files' = (filename :> PngOf(img)) @@ files
  /\ written' = Append(written, filename)
  /\ pc' = "print_created"
  /\ UNCHANGED <<exc, exitStatus>>
  /\ UNCHANGED <<ret, i, callNo, out>>
  /\ UNCHANGED locals

\* Faulty variant: a save that cannot write is passed over in silence.
save_unchecked ==
  /\ pc = "save"
  /\ \E io_ok \in BOOLEAN :
       IF DirExists(Dirname(filename)) /\ io_ok
         THEN /\ files' = (filename :> PngOf(img)) @@ files
              /\ written' = Append(written, filename)
         ELSE /\ UNCHANGED <<files, written>>
  /\ pc' = "print_created"
  /\ UNCHANGED <<dirs, exc, exitStatus>>
  /\ UNCHANGED <<ret, i, callNo, out>>
  /\ UNCHANGED locals

\* Line 45: img.save opens filename for writing, which creates no directory,
\* and writes the PNG; the host may fail the write (io_ok = FALSE).
save ==
  /\ pc = "save"
  /\ \E io_ok \in BOOLEAN :
       IF ~DirExists(Dirname(filename))
         THEN /\ Raise("FileNotFoundError")
              /\ UNCHANGED <<files, written>>
         ELSE IF ~io_ok
           THEN /\ Raise("OSError")
                /\ files' \in FailedWrites
                /\ UNCHANGED written
           ELSE /\ files' = (filename :> PngOf(img)) @@ files
                /\ written' = Append(written, filename)
                /\ pc' = "print_created"
                /\ UNCHANGED <<exc, exitStatus>>
  /\ UNCHANGED <<ret, i, callNo, dirs, out>>
  /\ UNCHANGED locals

CreatedLine == [kind |-> "created", device |-> device_name, path |-> filename]

\* Line 46, then the return to the caller.
print_created ==
  /\ pc = "print_created"
  /\ out' = Append(out, CreatedLine)
  /\ pc' = ret
  /\ UNCHANGED <<ret, i, callNo, dirs, files, written, exc, exitStatus>>
  /\ UNCHANGED locals

\* The end of the script: the interpreter exits with status 0.
module_end ==
  /\ pc = "end"
  /\ pc' = "exit"
  /\ exitStatus' = 0
  /\ UNCHANGED <<ret, i, callNo, dirs, files, out, written, exc>>
  /\ UNCHANGED locals

\* The call create_screenshot(w, h, path, device) made from statement `from`.
Call(w, h, path, device, from) ==
  /\ width' = w
  /\ height' = h
  /\ filename' = path
  /\ device_name' = device
  /\ img' = NoImg
  /\ y' = 0
  /\ x' = 0
  /\ font_large' = "unset"
  /\ font_small' = "unset"
  /\ font_error' = "none"
  /\ callNo' = callNo + 1
  /\ ret' = from
  /\ pc' = "new"

----------------------------------------------------------------------------
(* SpecCall: one call of create_screenshot *)

Sizes ==
  ((1..MaxWidth) \X (1..MaxHeight))
    \cup {<<IPhoneWidth, IPhoneHeight>>, <<IPadWidth, IPadHeight>>}

\* The states of the directory tree the call may find.
DirStates == { {}, {<<"screenshots">>}, {<<"screenshots">>, IphoneDir} }

InitCall ==
  /\ pc = "new"
  /\ ret = "end"
  /\ i = 0
  /\ callNo = 1
  /\ \E s \in Sizes : width = s[1] /\ height = s[2]
  /\ filename = IphonePath(1)
  /\ device_name = "iPhone"
  /\ img = NoImg
  /\ y = 0
  /\ x = 0
  /\ font_large = "unset"
  /\ font_small = "unset"
  /\ font_error = "none"
  /\ dirs \in DirStates
  /\ \E S \in SUBSET { p \in {IphonePath(1)} : Dirname(p) \in dirs } :
       files = [p \in S |-> StaleFile]
  /\ out = <<>>
  /\ written = <<>>
  /\ exc = NoExc
  /\ exitStatus = -1

NextCall ==
  \/ new_image
  \/ for_y
  \/ load_fonts
  \/ draw_title
  \/ draw_tagline
  \/ save
  \/ print_created
  \/ module_end

SpecCall == InitCall /\ [][NextCall]_vars

----------------------------------------------------------------------------
(* The driver, lines 48-61 *)

AllCreatedLine == [kind |-> "all_created", device |-> "", path |-> <<>>]
LocationLine   == [kind |-> "location", device |-> "", path |-> <<"screenshots">>]

\* os.makedirs(d, exist_ok=True): creates d and its missing ancestors, or
\* raises when the host refuses (ok = FALSE).
Makedirs(d, next) ==
  \E ok \in BOOLEAN :
    IF ok
      THEN /\ dirs' = dirs \cup Ancestors(d)
           /\ pc' = next
           /\ UNCHANGED <<exc, exitStatus>>
      ELSE /\ Raise("OSError")
           /\ UNCHANGED dirs

\* Line 49
makedirs_iphone ==
  /\ pc = "makedirs_iphone"
  /\ Makedirs(IphoneDir, "makedirs_ipad")
  /\ UNCHANGED <<ret, i, callNo, files, out, written>>
  /\ UNCHANGED locals

\* Faulty variant: line 50 left out.
makedirs_ipad_skipped ==
  /\ pc = "makedirs_ipad"
  /\ pc' = "for_iphone"
  /\ UNCHANGED <<ret, i, callNo, dirs, files, out, written, exc, exitStatus>>
  /\ UNCHANGED locals

\* Line 50
makedirs_ipad ==
  /\ pc = "makedirs_ipad"
  /\ Makedirs(IpadDir, "for_iphone")
  /\ UNCHANGED <<ret, i, callNo, files, out, written>>
  /\ UNCHANGED locals

\* Lines 53-54: i is the last value range(1, 6) yielded.
for_iphone ==
  /\ pc = "for_iphone"
  /\ IF i < IPhoneCount
       THEN /\ i' = i + 1
            /\ Call(IPhoneWidth, IPhoneHeight, IphonePath(i + 1), "iPhone", "for_iphone")
       ELSE /\ i' = 0
            /\ pc' = "for_ipad"
            /\ UNCHANGED <<ret, callNo>>
            /\ UNCHANGED locals
  /\ UNCHANGED <<dirs, files, out, written, exc, exitStatus>>

\* Lines 57-58: i is the last value range(1, 4) yielded.
for_ipad ==
  /\ pc = "for_ipad"
  /\ IF i < IPadCount
       THEN /\ i' = i + 1
            /\ Call(IPadWidth, IPadHeight, IpadPath(i + 1), "iPad", "for_ipad")
       ELSE /\ pc' = "print_all"
            /\ UNCHANGED <<i, ret, callNo>>
            /\ UNCHANGED locals
  /\ UNCHANGED <<dirs, files, out, written, exc, exitStatus>>

\* Line 60
print_all ==
  /\ pc = "print_all"
  /\ out' = Append(out, AllCreatedLine)
  /\ pc' = "print_location"
  /\ UNCHANGED <<ret, i, callNo, dirs, files, written, exc, exitStatus>>
  /\ UNCHANGED locals

\* Line 61
print_location ==
  /\ pc = "print_location"
  /\ out' = Append(out, LocationLine)
  /\ pc' = "end"
  /\ UNCHANGED <<ret, i, callNo, dirs, files, written, exc, exitStatus>>
  /\ UNCHANGED locals

\* The directory trees the script may start in: any part of screenshots/,
\* screenshots/iphone, screenshots/ipad.
InitDirs ==
  { {}, {<<"screenshots">>}, {<<"screenshots">>, IphoneDir},
    {<<"screenshots">>, IpadDir}, {<<"screenshots">>, IphoneDir, IpadDir} }

\* Files an earlier run may have left in them.
StaleCandidates(ds) == { p \in {IphonePath(1), IpadPath(1)} : Dirname(p) \in ds }

Init ==
  /\ pc = "makedirs_iphone"
  /\ ret = "none"
  /\ i = 0
  /\ callNo = 0
  /\ width = 0
  /\ height = 0
  /\ filename = <<>>
  /\ device_name = ""
  /\ img = NoImg
  /\ y = 0
  /\ x = 0
  /\ font_large = "unset"
  /\ font_small = "unset"
  /\ font_error = "none"
  /\ dirs \in InitDirs
  /\ \E S \in SUBSET StaleCandidates(dirs) : files = [p \in S |-> StaleFile]
  /\ out = <<>>
  /\ written = <<>>
  /\ exc = NoExc
  /\ exitStatus = -1

Next ==
  \/ makedirs_iphone
  \/ makedirs_ipad
  \/ for_iphone
  \/ for_ipad
  \/ new_image
  \/ for_y
  \/ load_fonts
  \/ draw_title
  \/ draw_tagline
  \/ save
  \/ print_created
  \/ print_all
  \/ print_location
  \/ module_end

Spec == Init /\ [][Next]_vars

----------------------------------------------------------------------------
(* Vocabulary of the properties *)

Range(f) == { f[k] : k \in DOMAIN f }

Abs(n) == IF n < 0 THEN -n ELSE n

\* The eight output paths as section 6 of the specification spells them.
ExpectedIphoneFiles ==
  { <<"screenshots", "iphone", "screenshot_1.png">>,
    <<"screenshots", "iphone", "screenshot_2.png">>,
    <<"screenshots", "iphone", "screenshot_3.png">>,
    <<"screenshots", "iphone", "screenshot_4.png">>,
    <<"screenshots", "iphone", "screenshot_5.png">> }

ExpectedIpadFiles ==
  { <<"screenshots", "ipad", "screenshot_1.png">>,
    <<"screenshots", "ipad", "screenshot_2.png">>,
    <<"screenshots", "ipad", "screenshot_3.png">> }

ExpectedOrder ==
  << <<"screenshots", "iphone", "screenshot_1.png">>,
     <<"screenshots", "iphone", "screenshot_2.png">>,
     <<"screenshots", "iphone", "screenshot_3.png">>,
     <<"screenshots", "iphone", "screenshot_4.png">>,
     <<"screenshots", "iphone", "screenshot_5.png">>,
     <<"screenshots", "ipad", "screenshot_1.png">>,
     <<"screenshots", "ipad", "screenshot_2.png">>,
     <<"screenshots", "ipad", "screenshot_3.png">> >>

FilesIn(d) == { p \in DOMAIN files : Dirname(p) = d }

RunSucceeded == pc = "exit" /\ exitStatus = 0

\* The gradient loop of the running call has just finished.
Painted == pc = "fonts"

Within1(c, d) == \A ch \in 1..3 : Abs(c[ch] - d[ch]) <= 1

Created(lines) == SelectSeq(lines, LAMBDA ln : ln.kind = "created")

----------------------------------------------------------------------------
(* C1 *)

\* C1: a run that completes leaves exactly screenshot_1..5.png of size
\* 1290x2796 under screenshots/iphone and exactly screenshot_1..3.png of size
\* 2048x2732 under screenshots/ipad, and the 8 paths it saved are pairwise
\* distinct, whatever part of the directory tree existed at the start.
C1_CompleteRunFiles ==
  RunSucceeded =>
    /\ FilesIn(<<"screenshots", "iphone">>) = ExpectedIphoneFiles
    /\ FilesIn(<<"screenshots", "ipad">>) = ExpectedIpadFiles
    /\ \A p \in ExpectedIphoneFiles : files[p] = [valid |-> TRUE, size |-> <<1290, 2796>>]
    /\ \A p \in ExpectedIpadFiles : files[p] = [valid |-> TRUE, size |-> <<2048, 2732>>]
    /\ Len(written) = 8
    /\ Cardinality(Range(written)) = 8

C1_Witness ==
  /\ RunSucceeded
  /\ Len(written) = 8
  /\ DOMAIN files = ExpectedIphoneFiles \cup ExpectedIpadFiles

----------------------------------------------------------------------------
(* C2 *)

TopRow    == RowColor(img, 1)
BottomRow == RowColor(img, height)

\* C2, as claimed: once the gradient is painted, the top scan-line has the
\* start colour and the bottom scan-line is within 1 unit per channel of the
\* end colour, for every height > 0.
C2_Original ==
  Painted => TopRow = StartColor /\ Within1(BottomRow, EndColor)

\* C2, amended: the top scan-line has the start colour for every height > 0;
\* the bottom scan-line is within 1 unit per channel of the end colour exactly
\* when height >= 17 (below that, row height - 1 is still more than one unit
\* short of the end colour).
C2_TopAndBottom ==
  Painted =>
    /\ TopRow = StartColor
    /\ Within1(BottomRow, EndColor) <=> height >= 17

C2_Witness ==
  /\ Painted
  /\ height = IPhoneHeight
  /\ BottomRow # TopRow
  /\ Within1(BottomRow, EndColor)

----------------------------------------------------------------------------
(* C10 *)

\* C10: once the gradient is painted, every scan-line of the canvas has
\* exactly one colour, with red in 79..108, green in 70..102 and blue in
\* 229..241, and no channel increases from one scan-line to the next.
C10_RangeAndMonotone ==
  Painted =>
    /\ \A k \in 1..height :
         /\ Cardinality({ b \in img.bands : b.first <= k /\ k <= b.last }) = 1
         /\ RowColor(img, k)[1] \in 79..108
         /\ RowColor(img, k)[2] \in 70..102
         /\ RowColor(img, k)[3] \in 229..241
    /\ \A k \in 1..(height - 1) : \A ch \in 1..3 :
         RowColor(img, k + 1)[ch] <= RowColor(img, k)[ch]

C10_Witness ==
  /\ Painted
  /\ height = IPadHeight
  /\ \E k \in 1..(height - 1) : RowColor(img, k + 1)[1] < RowColor(img, k)[1]
  /\ \E k \in 1..(height - 1) : RowColor(img, k + 1) = RowColor(img, k)

----------------------------------------------------------------------------
(* C3 *)

BeforeSave == pc \in {"new", "for_y", "fonts", "title", "tagline"}

\* C3: no step of create_screenshot before the save touches the file system
\* or the output, and when the directory of filename does not exist the save
\* step raises a file system error that ends the call: no directory and no
\* file is created and no confirmation line is printed.
C3_MissingDirectoryFails ==
  [][ /\ BeforeSave => UNCHANGED <<dirs, files, out>> /\ exc' = NoExc
      /\ (pc = "save" /\ ~DirExists(Dirname(filename))) =>
           /\ pc' = "exit"
           /\ exitStatus' = 1
           /\ exc' = [type |-> "FileNotFoundError", at |-> "save", call |-> callNo]
           /\ UNCHANGED <<dirs, files, out, written>>
    ]_vars

C3_Witness ==
  /\ pc = "exit"
  /\ exc.type = "FileNotFoundError"
  /\ exc.at = "save"
  /\ ~DirExists(Dirname(filename))
  /\ <<"screenshots">> \in dirs
  /\ files = <<>>
  /\ out = <<>>

----------------------------------------------------------------------------
(* C4 *)

AfterTitle   == pc \in {"tagline", "save", "print_created", "end", "exit"}
AfterTagline == pc \in {"save", "print_created", "end", "exit"}
Returned     == pc = "end" \/ (pc = "exit" /\ exc = NoExc)

\* C4: when either truetype() call of a call has raised, both fonts are the
\* built-in font, the call goes on to draw the title and the tagline with it,
\* and the only exception the call can still end with is the save step's own;
\* a call that returns has saved its file and printed its confirmation line.
C4_FontFailureNotFatal ==
  font_error # "none" =>
    /\ font_large = "default" /\ font_small = "default"
    /\ pc \in {"title", "tagline", "save", "print_created", "end", "exit"}
    /\ exc # NoExc => exc.at = "save"
    /\ AfterTitle =>
         /\ Len(img.texts) >= 1
         /\ img.texts[1].text = "Flow iQ"
         /\ img.texts[1].font = "default"
    /\ AfterTagline =>
         /\ Len(img.texts) = 2
         /\ img.texts[2].text = "Intelligent Menstrual Health"
         /\ img.texts[2].font = "default"
    /\ Returned =>
         /\ filename \in DOMAIN files
         /\ files[filename] = [valid |-> TRUE, size |-> <<width, height>>]
         /\ out = <<[kind |-> "created", device |-> device_name, path |-> filename]>>

C4_Witness ==
  /\ font_error = "small"
  /\ pc = "end"
  /\ Len(img.texts) = 2
  /\ Len(out) = 1
  /\ filename \in DOMAIN files

----------------------------------------------------------------------------
(* C7 *)

\* The text's ink spans ink[1]..ink[3] horizontally, so twice its midpoint is
\* ink[1] + ink[3], to be compared with twice width / 2.
Centered(t) == Abs(width - (t.ink[1] + t.ink[3])) <= 2

\* C7: every text drawn, title or tagline, has the horizontal midpoint of its
\* ink within 1 pixel of width / 2.
C7_TextCentered ==
  \A k \in 1..Len(img.texts) : Centered(img.texts[k])

----------------------------------------------------------------------------
(* C5 *)

NoSummary == \A k \in 1..Len(out) : out[k].kind = "created"

\* C5: when generation call k has failed, the run has stopped at that call
\* with exit status 1: no later call was started, exactly the files of calls
\* 1..k-1 were written and are on disk at their sizes, the later paths hold
\* nothing this run wrote, and no summary line was printed.
C5_FailureStopsRun ==
  exc.call >= 1 =>
    /\ pc = "exit" /\ exitStatus = 1
    /\ callNo = exc.call
    /\ written = SubSeq(ExpectedOrder, 1, exc.call - 1)
    /\ \A k \in 1..(exc.call - 1) :
         /\ ExpectedOrder[k] \in DOMAIN files
         /\ files[ExpectedOrder[k]] =
              [valid |-> TRUE,
               size  |-> IF k <= 5 THEN <<1290, 2796>> ELSE <<2048, 2732>>]
    /\ \A k \in (exc.call + 1)..8 :
         ExpectedOrder[k] \in DOMAIN files => files[ExpectedOrder[k]] = StaleFile
    /\ Len(out) = exc.call - 1
    /\ NoSummary

C5_Witness ==
  /\ exc.call = 3
  /\ exc.at = "save"
  /\ pc = "exit"
  /\ Len(written) = 2
  /\ Len(out) = 2

----------------------------------------------------------------------------
(* C6 *)

\* C6, as claimed, for the runs that got past the creation of the directories:
\* the run ends with exit status 0 having performed all 8 generations, also
\* when a generation call failed.
C6_Original ==
  (pc = "exit" /\ callNo >= 1) => exitStatus = 0 /\ Len(written) = 8

\* C6, amended: a run in which no step fails performs all 8 generations and
\* ends with exit status 0; a run in which the creation of a directory or a
\* generation call fails ends there with exit status 1, having performed only
\* the generations before the failing one.
C6_ExitStatus ==
  pc = "exit" =>
    /\ exc = NoExc => exitStatus = 0 /\ written = ExpectedOrder
    /\ exc # NoExc =>
         /\ exitStatus = 1
         /\ callNo = exc.call
         /\ Len(written) = IF exc.call = 0 THEN 0 ELSE exc.call - 1
         /\ Len(written) < 8

C6_Witness ==
  /\ pc = "exit"
  /\ exitStatus = 1
  /\ exc.call = 8
  /\ Len(written) = 7

----------------------------------------------------------------------------
(* C8 *)

AtDriverLevel ==
  pc \in {"makedirs_iphone", "makedirs_ipad", "for_iphone", "for_ipad",
          "print_all", "print_location", "end", "exit"}

\* C8: the confirmation lines are the first lines of the output, the k-th
\* naming the k-th file written; there are never more of them than files
\* written and between two calls exactly as many; "All screenshots created"
\* is printed only as line 9 and the location only as line 10, once each,
\* and a run that completes has printed both.
C8_OutputOrder ==
  /\ Len(Created(out)) <= Len(written)
  /\ Len(written) <= Len(Created(out)) + 1
  /\ AtDriverLevel => Len(Created(out)) = Len(written)
  /\ \A k \in 1..Len(out) :
       /\ out[k].kind = "created" =>
            /\ k <= Len(written)
            /\ out[k].path = written[k]
            /\ out[k].device = (IF k <= 5 THEN "iPhone" ELSE "iPad")
       /\ out[k].kind = "all_created" => k = 9
       /\ out[k].kind = "location" => k = 10
  /\ RunSucceeded => Len(out) = 10 /\ out[9].kind = "all_created" /\ out[10].kind = "location"

C8_Witness ==
  /\ pc = "print_created"
  /\ Len(written) = 8
  /\ Len(out) = 7

----------------------------------------------------------------------------
(* C9 *)

InCall == pc \in {"new", "for_y", "fonts", "title", "tagline", "save", "print_created"}

\* C9: from the first generation call on both output directories exist; a
\* call starts only when the files of all earlier calls are written; the files
\* are written in the order iPhone 1..5, then iPad 1..3.
C9_Sequential ==
  /\ callNo >= 1 =>
       <<"screenshots", "iphone">> \in dirs /\ <<"screenshots", "ipad">> \in dirs
  /\ written = SubSeq(ExpectedOrder, 1, Len(written))
  /\ InCall => filename = ExpectedOrder[callNo]
  /\ (InCall /\ pc # "print_created") => Len(written) = callNo - 1
  /\ pc = "print_created" => Len(written) = callNo

C9_Witness ==
  /\ pc = "new"
  /\ callNo = 6
  /\ filename = <<"screenshots", "ipad", "screenshot_1.png">>
  /\ Len(written) = 5

====
